---- MODULE Spec2Model ----
(***************************************************************************)
(* Price-oracle clients for Solana tokens: BirdEyeClient (src/birdeye.py)  *)
(* and DexScreenerClient (src/dexscreener.py), with the address gate of    *)
(* src/helpers.py.                                                         *)
(*                                                                         *)
(* One client call is in progress at a time (the code is synchronous and   *)
(* shares nothing between calls).  A call runs from its entry to the       *)
(* blocking requests.get, and from the arrival of the response to the next *)
(* requests.get or to its return/raise.  http is the log of the requests   *)
(* the call has issued, responses the responses it has received, outcome   *)
(* what it returned or raised.                                             *)
(*                                                                         *)
(* A Python dict is a function whose DOMAIN is the key set (the empty dict  *)
(* is the empty function).  A JSON object of a payload is the pair of its  *)
(* number-valued members and its string-valued members, [num, str], each a *)
(* dict.  A dict whose iteration order matters (the "data" object of the   *)
(* BirdEye response) is the sequence of its items, keys distinct.  Payload *)
(* numbers are integers, on which Decimal(), int() and float() are exact.  *)
(***************************************************************************)
EXTENDS Integers, Sequences, FiniteSets, TLC

VARIABLES pc, op, token_addresses, address, token_pairs, http, responses, i, prices, outcome

vars == <<pc, op, token_addresses, address, token_pairs, http, responses, i, prices, outcome>>

-----------------------------------------------------------------------------
(* Bounds and input domains *)

\* longest address list handed to DexScreenerClient.fetch_prices_dex
MaxAddrs == 3
\* longest address list handed to BirdEyeClient.fetch_prices
MaxBatch == 2
\* most entries in the "data" object of a BirdEye multi_price response
MaxEntries == 2
\* longest pair list handed to find_largest_pool_with_sol
MaxPairs == 3

\* the strings a caller passes as addresses: empty, malformed, two well-formed
Addresses == {"", "bad", "A", "B"}
\* the strings Pubkey.from_string accepts (32-byte base58 keys)
ValidAddresses == {"A", "B"}
\* keys the BirdEye response may carry in "data"
ResponseAddresses == {"bad", "A", "B"}
\* HTTP status codes of a response
ErrorStatuses == {404}
\* numbers a price / liquidity field of a price response takes
PriceVals == {0, 7}
\* numbers a field of an overview payload takes
FieldVals == {-1, 0, 5}
\* strings the symbol field takes
SymbolVals == {"SYM"}
\* numbers liquidity.usd of a trading pair takes
UsdVals == {0, 50}
\* pairAddress members of the pair listing
PairAddresses == {"P1", "P2"}

EmptyDict == [k \in {} |-> 0]

\* all dicts with keys among keys and values in vals
DictsOver(keys, vals) == UNION {[S -> vals] : S \in SUBSET keys}

\* all sequences over S of length at most n
SeqsUpTo(S, n) == UNION {[1..k -> S] : k \in 0..n}

\* dict.get(key, default)
Get(d, key, default) == IF key \in DOMAIN d THEN d[key] ELSE default

\* JSON objects with number members among numkeys and string members among strkeys
JsonOver(numkeys, numvals, strkeys, strvals) ==
    [num : DictsOver(numkeys, numvals), str : DictsOver(strkeys, strvals)]

EmptyJson == [num |-> EmptyDict, str |-> EmptyDict]

\* key in obj
Has(obj, key) == key \in DOMAIN obj.num \cup DOMAIN obj.str

-----------------------------------------------------------------------------
(* helpers.py *)

\* Pubkey.from_string(input_string) returns (TRUE) or raises ValueError (FALSE)
Pubkey_from_string_ok(input_string) == input_string \in ValidAddresses

\* the gate letting every string through
is_solana_address_AlwaysTrue(input_string) == TRUE

is_solana_address(input_string) == Pubkey_from_string_ok(input_string)

-----------------------------------------------------------------------------
(* Data contracts (module common) and what a call yields *)

PriceInfo(price, liquidity) == [price |-> price, liquidity |-> liquidity]

TokenOverview(price, symbol, decimals, lastTradeUnixTime, liquidity, supply) ==
    [price |-> price, symbol |-> symbol, decimals |-> decimals,
     lastTradeUnixTime |-> lastTradeUnixTime, liquidity |-> liquidity, supply |-> supply]

\* exact on the integers of the model
Decimal(n) == n
int(n) == n

NoOutcome == [kind |-> "none", exc |-> "", arg |-> <<>>, value |-> EmptyDict]

\* raise exc(*arg): arg is the tuple of addresses the exception carries,
\* or the message constant for ValueError
Raise(exc, arg) == [kind |-> "raise", exc |-> exc, arg |-> arg, value |-> EmptyDict]

Return(value) == [kind |-> "return", exc |-> "", arg |-> <<>>, value |-> value]

\* a request: the provider and the addresses its URL carries
Request(provider, addrs) == [provider |-> provider, addrs |-> addrs]

Response(status, data) == [status |-> status, data |-> data]

\* result of running a call up to its next blocking point
Stop(o) == [done |-> TRUE, outcome |-> o, request |-> <<>>]
Send(provider, addrs) ==
    [done |-> FALSE, outcome |-> NoOutcome, request |-> <<Request(provider, addrs)>>]

-----------------------------------------------------------------------------
(* BirdEyeClient.fetch_prices *)

\* birdeye.py 53-56 without the empty check
BirdEye_fetch_prices_begin_NoEmptyCheck(addrs) == Send("birdeye", addrs)

\* birdeye.py 53-56: the empty check, then the one batched request
BirdEye_fetch_prices_begin(addrs) ==
    IF addrs = <<>>
    THEN Stop(Raise("NoPositionsError", <<>>))
    ELSE Send("birdeye", addrs)

\* birdeye.py 61-66: one pass over data["data"].items(); acc = [prices, invalid_tokens]
RECURSIVE BirdEye_collect(_, _, _)
BirdEye_collect(data, k, acc) ==
    IF k > Len(data) THEN acc
    ELSE LET token_address == data[k].addr
             token_data    == data[k].token_data
         IN IF Has(token_data, "value") /\ Has(token_data, "liquidity")
            THEN BirdEye_collect(data, k + 1,
                    [acc EXCEPT !.prices =
                        [a \in DOMAIN acc.prices \cup {token_address} |->
                            IF a = token_address
                            THEN PriceInfo(Decimal(token_data.num["value"]),
                                           Decimal(token_data.num["liquidity"]))
                            ELSE acc.prices[a]]])
            ELSE BirdEye_collect(data, k + 1,
                    [acc EXCEPT !.invalid_tokens = Append(@, token_address)])

\* a plausible slip: partial success returned instead of raising
BirdEye_fetch_prices_finish_Partial(response) ==
    IF response.status = 200
    THEN Return(BirdEye_collect(response.data, 1,
                    [prices |-> EmptyDict, invalid_tokens |-> <<>>]).prices)
    ELSE Raise("InvalidTokens", <<>>)

\* birdeye.py 57-71
BirdEye_fetch_prices_finish(response) ==
    IF response.status = 200
    THEN LET r == BirdEye_collect(response.data, 1,
                    [prices |-> EmptyDict, invalid_tokens |-> <<>>])
         IN IF r.invalid_tokens # <<>>
            THEN Raise("InvalidTokens", r.invalid_tokens)
            ELSE Return(r.prices)
    ELSE Raise("InvalidTokens", <<>>)

\* the "data" objects of a multi_price response: items in order, keys distinct
DataOver(addrs, dicts, n) ==
    {s \in SeqsUpTo([addr : addrs, token_data : dicts], n) :
        \A a, b \in 1..Len(s) : a # b => s[a].addr # s[b].addr}

PriceDicts == JsonOver({"value", "liquidity"}, PriceVals, {}, {})

BirdEyePriceResponses ==
    {Response(200, d) : d \in DataOver(ResponseAddresses, PriceDicts, MaxEntries)}
    \cup {Response(s, <<>>) : s \in ErrorStatuses}

BirdEye_fetch_prices_Call ==
    /\ pc = "idle"
    /\ \E addrs \in SeqsUpTo(Addresses, MaxBatch) :
        LET r == BirdEye_fetch_prices_begin(addrs)
        IN /\ op' = "BirdEye.fetch_prices"
           /\ token_addresses' = addrs
           /\ http' = r.request
           /\ outcome' = r.outcome
           /\ pc' = IF r.done THEN "done" ELSE "waiting"
    /\ UNCHANGED <<address, token_pairs, responses, i, prices>>

BirdEye_fetch_prices_Response ==
    /\ pc = "waiting"
    /\ op = "BirdEye.fetch_prices"
    /\ \E response \in BirdEyePriceResponses :
        /\ responses' = Append(responses, response)
        /\ outcome' = BirdEye_fetch_prices_finish(response)
    /\ pc' = "done"
    /\ UNCHANGED <<op, token_addresses, address, token_pairs, http, i, prices>>

-----------------------------------------------------------------------------
(* BirdEyeClient.fetch_token_overview *)

\* birdeye.py 90-93: the address gate, then the request
BirdEye_fetch_token_overview_begin(addr) ==
    IF ~is_solana_address(addr)
    THEN Stop(Raise("InvalidSolanaAddress", <<addr>>))
    ELSE Send("birdeye", <<addr>>)

\* data.get(address, {}) on the item sequence of the "data" object
DataGet(data, addr, default) ==
    IF \E k \in 1..Len(data) : data[k].addr = addr
    THEN data[CHOOSE k \in 1..Len(data) : data[k].addr = addr].token_data
    ELSE default

\* birdeye.py 100-111 with the zero checks in the other order
BirdEye_overview_of_LiquidityFirst(token_data) ==
    LET decimals  == int(Get(token_data.num, "decimals", 0))
        liquidity == Decimal(Get(token_data.num, "liquidity", 0))
    IN IF liquidity = 0 THEN Raise("ValueError", <<"NO_LIQUDITY">>)
       ELSE IF decimals = 0 THEN Raise("DecimalsNotFoundError", <<>>)
       ELSE Return(TokenOverview(Decimal(Get(token_data.num, "value", 0)),
                                 Get(token_data.str, "symbol", ""), decimals,
                                 int(Get(token_data.num, "lastTradeUnixTime", 0)),
                                 liquidity, Decimal(Get(token_data.num, "supply", 0))))

\* birdeye.py 100-111 without the zero checks
BirdEye_overview_of_Unchecked(token_data) ==
    Return(TokenOverview(Decimal(Get(token_data.num, "value", 0)),
                         Get(token_data.str, "symbol", ""),
                         int(Get(token_data.num, "decimals", 0)),
                         int(Get(token_data.num, "lastTradeUnixTime", 0)),
                         Decimal(Get(token_data.num, "liquidity", 0)),
                         Decimal(Get(token_data.num, "supply", 0))))

\* birdeye.py 100-111: defaulting, coercion, the two zero checks, the overview
BirdEye_overview_of(token_data) ==
    LET price                == Decimal(Get(token_data.num, "value", 0))
        symbol               == Get(token_data.str, "symbol", "")
        decimals             == int(Get(token_data.num, "decimals", 0))
        last_trade_unix_time == int(Get(token_data.num, "lastTradeUnixTime", 0))
        liquidity            == Decimal(Get(token_data.num, "liquidity", 0))
        supply               == Decimal(Get(token_data.num, "supply", 0))
    IN IF decimals = 0 THEN Raise("DecimalsNotFoundError", <<>>)
       ELSE IF liquidity = 0 THEN Raise("ValueError", <<"NO_LIQUDITY">>)
       ELSE Return(TokenOverview(price, symbol, decimals, last_trade_unix_time,
                                 liquidity, supply))

\* birdeye.py 94-113 without the missing-entry check
BirdEye_fetch_token_overview_finish_NoEntryCheck(addr, response) ==
    IF response.status = 200
    THEN BirdEye_overview_of(DataGet(response.data, addr, EmptyJson))
    ELSE Raise("InvalidTokens", <<>>)

\* birdeye.py 94-113
BirdEye_fetch_token_overview_finish(addr, response) ==
    IF response.status = 200
    THEN LET token_data == DataGet(response.data, addr, EmptyJson)
         IN IF token_data = EmptyJson
            THEN Raise("InvalidTokens", <<addr>>)
            ELSE BirdEye_overview_of(token_data)
    ELSE Raise("InvalidTokens", <<>>)

BirdEyeOverviewDicts ==
    JsonOver({"value", "decimals", "lastTradeUnixTime", "liquidity", "supply"}, FieldVals,
             {"symbol"}, SymbolVals)

\* the "data" object of an overview response carries at most one item
BirdEyeOverviewResponses ==
    {Response(200, <<>>)}
    \cup {Response(200, <<[addr |-> a, token_data |-> d]>>) :
            a \in ResponseAddresses, d \in BirdEyeOverviewDicts}
    \cup {Response(s, <<>>) : s \in ErrorStatuses}

BirdEye_fetch_token_overview_Call ==
    /\ pc = "idle"
    /\ \E addr \in Addresses :
        LET r == BirdEye_fetch_token_overview_begin(addr)
        IN /\ op' = "BirdEye.fetch_token_overview"
           /\ address' = addr
           /\ http' = r.request
           /\ outcome' = r.outcome
           /\ pc' = IF r.done THEN "done" ELSE "waiting"
    /\ UNCHANGED <<token_addresses, token_pairs, responses, i, prices>>

BirdEye_fetch_token_overview_Response ==
    /\ pc = "waiting"
    /\ op = "BirdEye.fetch_token_overview"
    /\ \E response \in BirdEyeOverviewResponses :
        /\ responses' = Append(responses, response)
        /\ outcome' = BirdEye_fetch_token_overview_finish(address, response)
    /\ pc' = "done"
    /\ UNCHANGED <<op, token_addresses, address, token_pairs, http, i, prices>>

-----------------------------------------------------------------------------
(* DexScreenerClient *)

\* dexscreener.py 62-77: TRUE when _validate_response returns, FALSE when it raises
validate_response(resp) == resp.status = 200

\* result of running fetch_prices_dex up to its next blocking point
DexStop(o, k, p) == [done |-> TRUE, outcome |-> o, request |-> <<>>, i |-> k, prices |-> p]
DexSend(addr, k, p) ==
    [done |-> FALSE, outcome |-> NoOutcome,
     request |-> <<Request("dexscreener", <<addr>>)>>, i |-> k, prices |-> p]

\* the loop head, the invalid address skipped instead of raised
RECURSIVE Dex_loop_SkipInvalid(_, _, _)
Dex_loop_SkipInvalid(addrs, k, p) ==
    IF k > Len(addrs) THEN DexStop(Return(p), k, p)
    ELSE IF ~is_solana_address(addrs[k]) THEN Dex_loop_SkipInvalid(addrs, k + 1, p)
    ELSE DexSend(addrs[k], k, p)

\* dexscreener.py 144-148, 155: iteration k of the loop up to its request,
\* or the return after the last iteration
Dex_loop(addrs, k, p) ==
    IF k > Len(addrs) THEN DexStop(Return(p), k, p)
    ELSE IF ~is_solana_address(addrs[k])
         THEN DexStop(Raise("InvalidSolanaAddress", <<addrs[k]>>), k, p)
    ELSE DexSend(addrs[k], k, p)

\* dexscreener.py 141-148
Dex_fetch_prices_dex_begin(addrs) ==
    IF addrs = <<>>
    THEN DexStop(Raise("NoPositionsError", <<>>), 0, EmptyDict)
    ELSE Dex_loop(addrs, 1, EmptyDict)

\* dexscreener.py 149-153, then the next iteration
Dex_fetch_prices_dex_resume(addrs, k, p, response) ==
    IF ~validate_response(response)
    THEN DexStop(Raise("InvalidTokens", <<>>), k, p)
    ELSE LET data      == response.data
             price     == Decimal(Get(data.num, "price", 0))
             liquidity == Decimal(Get(data.num, "liquidity", 0))
             p2        == [a \in DOMAIN p \cup {addrs[k]} |->
                              IF a = addrs[k] THEN PriceInfo(price, liquidity) ELSE p[a]]
         IN Dex_loop(addrs, k + 1, p2)

DexPriceDicts == JsonOver({"price", "liquidity"}, PriceVals, {}, {})

DexPriceResponses ==
    {Response(200, d) : d \in DexPriceDicts}
    \cup {Response(s, EmptyJson) : s \in ErrorStatuses}

Dex_fetch_prices_dex_Call ==
    /\ pc = "idle"
    /\ \E addrs \in SeqsUpTo(Addresses, MaxAddrs) :
        LET r == Dex_fetch_prices_dex_begin(addrs)
        IN /\ op' = "DexScreener.fetch_prices_dex"
           /\ token_addresses' = addrs
           /\ http' = r.request
           /\ outcome' = r.outcome
           /\ i' = r.i
           /\ prices' = r.prices
           /\ pc' = IF r.done THEN "done" ELSE "waiting"
    /\ UNCHANGED <<address, token_pairs, responses>>

Dex_fetch_prices_dex_Response ==
    /\ pc = "waiting"
    /\ op = "DexScreener.fetch_prices_dex"
    /\ \E response \in DexPriceResponses :
        LET r == Dex_fetch_prices_dex_resume(token_addresses, i, prices, response)
        IN /\ responses' = Append(responses, response)
           /\ http' = http \o r.request
           /\ outcome' = r.outcome
           /\ i' = r.i
           /\ prices' = r.prices
           /\ pc' = IF r.done THEN "done" ELSE "waiting"
    /\ UNCHANGED <<op, token_addresses, address, token_pairs>>

\* dexscreener.py 168-171
Dex_fetch_token_overview_begin(addr) ==
    IF ~is_solana_address(addr)
    THEN Stop(Raise("InvalidSolanaAddress", <<addr>>))
    ELSE Send("dexscreener", <<addr>>)

\* dexscreener.py 172-188 with BirdEye's zero checks added
Dex_fetch_token_overview_finish_Validated(response) ==
    IF ~validate_response(response) THEN Raise("InvalidTokens", <<>>)
    ELSE IF int(Get(response.data.num, "decimals", 0)) = 0
         THEN Raise("DecimalsNotFoundError", <<>>)
    ELSE IF Decimal(Get(response.data.num, "liquidity", 0)) = 0
         THEN Raise("ValueError", <<"NO_LIQUDITY">>)
    ELSE Return(TokenOverview(Decimal(Get(response.data.num, "price", 0)),
                              Get(response.data.str, "symbol", ""),
                              int(Get(response.data.num, "decimals", 0)),
                              int(Get(response.data.num, "lastTradeUnixTime", 0)),
                              Decimal(Get(response.data.num, "liquidity", 0)),
                              Decimal(Get(response.data.num, "supply", 0))))

\* dexscreener.py 172-188
Dex_fetch_token_overview_finish(response) ==
    IF ~validate_response(response) THEN Raise("InvalidTokens", <<>>)
    ELSE LET data                 == response.data
             price                == Decimal(Get(data.num, "price", 0))
             symbol               == Get(data.str, "symbol", "")
             decimals             == int(Get(data.num, "decimals", 0))
             last_trade_unix_time == int(Get(data.num, "lastTradeUnixTime", 0))
             liquidity            == Decimal(Get(data.num, "liquidity", 0))
             supply               == Decimal(Get(data.num, "supply", 0))
         IN Return(TokenOverview(price, symbol, decimals, last_trade_unix_time,
                                 liquidity, supply))

DexOverviewDicts ==
    JsonOver({"price", "decimals", "lastTradeUnixTime", "liquidity", "supply"}, FieldVals,
             {"symbol"}, SymbolVals)

DexOverviewResponses ==
    {Response(200, d) : d \in DexOverviewDicts}
    \cup {Response(s, EmptyJson) : s \in ErrorStatuses}

Dex_fetch_token_overview_Call ==
    /\ pc = "idle"
    /\ \E addr \in Addresses :
        LET r == Dex_fetch_token_overview_begin(addr)
        IN /\ op' = "DexScreener.fetch_token_overview"
           /\ address' = addr
           /\ http' = r.request
           /\ outcome' = r.outcome
           /\ pc' = IF r.done THEN "done" ELSE "waiting"
    /\ UNCHANGED <<token_addresses, token_pairs, responses, i, prices>>

Dex_fetch_token_overview_Response ==
    /\ pc = "waiting"
    /\ op = "DexScreener.fetch_token_overview"
    /\ \E response \in DexOverviewResponses :
        /\ responses' = Append(responses, response)
        /\ outcome' = Dex_fetch_token_overview_finish(response)
    /\ pc' = "done"
    /\ UNCHANGED <<op, token_addresses, address, token_pairs, http, i, prices>>

-----------------------------------------------------------------------------
(* DexScreenerClient.find_largest_pool_with_sol *)

\* vars.constants.SOL_MINT, the wrapped-native-asset mint
SOL_MINT == "So11111111111111111111111111111111111111112"

\* a pair record of the pair listing
Pair(pairAddress, base, quote, liquidity) ==
    [pairAddress |-> pairAddress, baseToken |-> [address |-> base],
     quoteToken |-> [address |-> quote], liquidity |-> liquidity]

\* dexscreener.py 197: the two address conditions
pool_matches(entry, addr) ==
    entry.baseToken.address = addr /\ entry.quoteToken.address = SOL_MINT

\* dexscreener.py 198: float(entry.get("liquidity", {}).get("usd", 0))
liquidity_usd(entry) == Get(entry.liquidity, "usd", 0)

\* dexscreener.py 199 with >= for >
pool_better_OrEqual(liq, max_liquidity_usd) == liq >= max_liquidity_usd

\* dexscreener.py 199
pool_better(liq, max_liquidity_usd) == liq > max_liquidity_usd

\* dexscreener.py 195-201: the loop from entry k on
RECURSIVE pool_loop(_, _, _, _, _)
pool_loop(pairs, addr, k, max_entry, max_liquidity_usd) ==
    IF k > Len(pairs) THEN max_entry
    ELSE IF pool_matches(pairs[k], addr) /\ pool_better(liquidity_usd(pairs[k]), max_liquidity_usd)
         THEN pool_loop(pairs, addr, k + 1, pairs[k], liquidity_usd(pairs[k]))
    ELSE pool_loop(pairs, addr, k + 1, max_entry, max_liquidity_usd)

\* dexscreener.py 191-202
find_largest_pool_with_sol(pairs, addr) == pool_loop(pairs, addr, 1, EmptyDict, -1)

PairRecords ==
    {Pair(pa, b, q, l) : pa \in PairAddresses, b \in ValidAddresses,
                         q \in {SOL_MINT, "A"}, l \in DictsOver({"usd"}, UsdVals)}

find_largest_pool_with_sol_Call ==
    /\ pc = "idle"
    /\ \E pairs \in SeqsUpTo(PairRecords, MaxPairs), addr \in ValidAddresses :
        /\ op' = "DexScreener.find_largest_pool_with_sol"
        /\ token_pairs' = pairs
        /\ address' = addr
        /\ outcome' = Return(find_largest_pool_with_sol(pairs, addr))
    /\ pc' = "done"
    /\ UNCHANGED <<token_addresses, http, responses, i, prices>>

-----------------------------------------------------------------------------
(* The caller *)

\* the call is over; nothing of it is kept (no cache, no shared state)
Finish ==
    /\ pc = "done"
    /\ pc' = "idle"
    /\ op' = "none"
    /\ token_addresses' = <<>>
    /\ address' = ""
    /\ token_pairs' = <<>>
    /\ http' = <<>>
    /\ responses' = <<>>
    /\ i' = 0
    /\ prices' = EmptyDict
    /\ outcome' = NoOutcome

Init ==
    /\ pc = "idle"
    /\ op = "none"
    /\ token_addresses = <<>>
    /\ address = ""
    /\ token_pairs = <<>>
    /\ http = <<>>
    /\ responses = <<>>
    /\ i = 0
    /\ prices = EmptyDict
    /\ outcome = NoOutcome

Next ==
    \/ BirdEye_fetch_prices_Call
    \/ BirdEye_fetch_prices_Response
    \/ BirdEye_fetch_token_overview_Call
    \/ BirdEye_fetch_token_overview_Response
    \/ Dex_fetch_prices_dex_Call
    \/ Dex_fetch_prices_dex_Response
    \/ Dex_fetch_token_overview_Call
    \/ Dex_fetch_token_overview_Response
    \/ find_largest_pool_with_sol_Call
    \/ Finish

Spec == Init /\ [][Next]_vars

-----------------------------------------------------------------------------
(* Properties *)

BE_prices   == "BirdEye.fetch_prices"
BE_overview == "BirdEye.fetch_token_overview"
DX_prices   == "DexScreener.fetch_prices_dex"
DX_overview == "DexScreener.fetch_token_overview"
DX_pool     == "DexScreener.find_largest_pool_with_sol"

\* the items of a "data" object that lack the price value or the liquidity value
Offending(data) ==
    {k \in 1..Len(data) : ~(Has(data[k].token_data, "value")
                            /\ Has(data[k].token_data, "liquidity"))}

\* the elements of a sequence
Range(seq) == {seq[k] : k \in 1..Len(seq)}

\* C1: BirdEye fetchPrices is all-or-nothing. Whenever its 200 response has at
\* least one entry lacking the price value or the liquidity value, the call
\* raises InvalidTokens carrying exactly the addresses of those entries (each
\* once, no well-formed entry among them) and returns no price mapping.
C1_AllOrNothing ==
    (op = BE_prices /\ pc = "done" /\ responses # <<>> /\ responses[1].status = 200
        /\ Offending(responses[1].data) # {})
    => /\ outcome.kind = "raise"
       /\ outcome.exc = "InvalidTokens"
       /\ Range(outcome.arg) = {responses[1].data[k].addr : k \in Offending(responses[1].data)}
       /\ Len(outcome.arg) = Cardinality(Offending(responses[1].data))
       /\ outcome.value = EmptyDict

\* a batch with one well-formed and one offending entry has been answered
C1_Witness ==
    /\ op = BE_prices /\ pc = "done" /\ responses # <<>> /\ responses[1].status = 200
    /\ Len(responses[1].data) = 2
    /\ Cardinality(Offending(responses[1].data)) = 1
    /\ outcome.kind = "raise" /\ Len(outcome.arg) = 1

Rejected == {s \in Addresses : s # "" /\ ~Pubkey_from_string_ok(s)}

\* the first index of a list whose address the parser rejects (0 if none)
FirstRejected(addrs) ==
    IF \E k \in 1..Len(addrs) : ~Pubkey_from_string_ok(addrs[k])
    THEN CHOOSE k \in 1..Len(addrs) :
            /\ ~Pubkey_from_string_ok(addrs[k])
            /\ \A j \in 1..(k - 1) : Pubkey_from_string_ok(addrs[j])
    ELSE 0

OverviewEntry == DataGet(responses[1].data, address, EmptyJson)

\* BirdEye fetchTokenOverview has a 200 response with a non-empty entry
BE_overview_answered ==
    /\ op = BE_overview /\ pc = "done" /\ responses # <<>>
    /\ responses[1].status = 200
    /\ OverviewEntry # EmptyJson

\* the overview the payload fields give, absent fields defaulted
OverviewFrom(obj, priceKey) ==
    [price |-> Get(obj.num, priceKey, 0), symbol |-> Get(obj.str, "symbol", ""),
     decimals |-> Get(obj.num, "decimals", 0),
     lastTradeUnixTime |-> Get(obj.num, "lastTradeUnixTime", 0),
     liquidity |-> Get(obj.num, "liquidity", 0), supply |-> Get(obj.num, "supply", 0)]

C5_FailFast ==
    (op = DX_prices /\ token_addresses # <<>>) =>
        LET n == Len(http)
            m == Len(responses)
        IN /\ n <= Len(token_addresses)
           /\ \A j \in 1..n : /\ http[j] = Request("dexscreener", <<token_addresses[j]>>)
                              /\ Pubkey_from_string_ok(token_addresses[j])
           /\ m \in {n - 1, n} /\ m >= 0
           /\ \A j \in 1..(m - 1) : responses[j].status = 200
           /\ pc = "waiting" => (m = n - 1 /\ (m > 0 => responses[m].status = 200))
           /\ pc = "done" =>
                \/ /\ m = n /\ n > 0 /\ responses[m].status # 200
                   /\ outcome = Raise("InvalidTokens", <<>>)
                \/ /\ m = n /\ n < Len(token_addresses)
                   /\ (m > 0 => responses[m].status = 200)
                   /\ ~Pubkey_from_string_ok(token_addresses[n + 1])
                   /\ outcome = Raise("InvalidSolanaAddress", <<token_addresses[n + 1]>>)
                \/ /\ m = n /\ n = Len(token_addresses)
                   /\ responses[m].status = 200
                   /\ outcome.kind = "return"
                   /\ DOMAIN outcome.value = Range(token_addresses)

\* three addresses, the second invalid: one request, nothing for the third
C5_Witness ==
    /\ op = DX_prices /\ pc = "done"
    /\ token_addresses = <<"A", "bad", "B">>
    /\ http = <<Request("dexscreener", <<"A">>)>>
    /\ outcome = Raise("InvalidSolanaAddress", <<"bad">>)

\* the indices of the pairs that match both address conditions
Matching(pairs, addr) ==
    {k \in 1..Len(pairs) : /\ pairs[k].baseToken.address = addr
                           /\ pairs[k].quoteToken.address = SOL_MINT}

\* liquidityUsd of a pair, 0 when the payload has none
LiquidityUsd(pair) == IF "usd" \in DOMAIN pair.liquidity THEN pair.liquidity["usd"] ELSE 0

BE_overview_returned == op = BE_overview /\ pc = "done" /\ outcome.kind = "return"

\* C7 as claimed: every TokenOverview BirdEye fetchTokenOverview returns has
\* decimals > 0 and liquidity > 0, negative payload values included.
C7_Original ==
    BE_overview_returned => (outcome.value.decimals > 0 /\ outcome.value.liquidity > 0)

\* C7 amended: every TokenOverview BirdEye fetchTokenOverview returns has
\* decimals different from 0 and liquidity different from 0 (each is positive
\* whenever the payload's value is not negative; a negative payload value
\* passes the zero checks and is returned as it is).
C7_NonZero ==
    BE_overview_returned =>
        /\ outcome.value.decimals # 0 /\ outcome.value.liquidity # 0
        /\ outcome.value.decimals = Get(OverviewEntry.num, "decimals", 0)
        /\ outcome.value.liquidity = Get(OverviewEntry.num, "liquidity", 0)

\* an overview with negative decimals has been returned
C7_Witness == BE_overview_returned /\ outcome.value.decimals < 0

\* C8: whenever BirdEye fetchPrices returns normally, the key set of the
\* returned mapping is the set of requested addresses (stated here for
\* requests of well-formed addresses, the case the claim is about).
C8_EveryRequestedAddress ==
    (op = BE_prices /\ pc = "done" /\ outcome.kind = "return"
        /\ \A a \in Range(token_addresses) : Pubkey_from_string_ok(a))
    => DOMAIN outcome.value = Range(token_addresses)

\* the DexScreener payload as BirdEye would carry it: price under "value"
AsBirdEye(data) ==
    [num |-> [k \in (DOMAIN data.num \ {"price"})
                    \cup (IF "price" \in DOMAIN data.num THEN {"value"} ELSE {}) |->
                IF k = "value" THEN data.num["price"] ELSE data.num[k]],
     str |-> data.str]

\* C9: DexScreener fetchTokenOverview is best-effort. For a valid address and
\* a 200 response it returns the TokenOverview of the payload, absent fields
\* zero/empty, and raises neither DecimalsNotFoundError nor a no-liquidity
\* error, also when decimals or liquidity is 0 or absent, where BirdEye's
\* processing of the same field values raises.
C9_BestEffort ==
    (op = DX_overview /\ pc = "done" /\ responses # <<>> /\ responses[1].status = 200)
    => /\ outcome = Return(OverviewFrom(responses[1].data, "price"))
       /\ (outcome.value.decimals = 0 \/ outcome.value.liquidity = 0)
            => BirdEye_overview_of(AsBirdEye(responses[1].data)).kind = "raise"

\* an overview was returned for a payload without decimals
C9_Witness ==
    /\ op = DX_overview /\ pc = "done" /\ responses # <<>> /\ responses[1].status = 200
    /\ "decimals" \notin DOMAIN responses[1].data.num
    /\ outcome.kind = "return" /\ outcome.value.decimals = 0

\* C10: BirdEye fetchTokenOverview fails with InvalidTokens carrying no address
\* when the status is not 200, and with InvalidTokens carrying the address
\* when the 200 response has no entry, or an empty entry, for the address, in
\* both cases whatever the decimals and liquidity of the response.
C10_InvalidTokensFirst ==
    (op = BE_overview /\ pc = "done" /\ responses # <<>>) =>
        /\ responses[1].status # 200 => outcome = Raise("InvalidTokens", <<>>)
        /\ (responses[1].status = 200 /\ OverviewEntry = EmptyJson)
            => outcome = Raise("InvalidTokens", <<address>>)

\* a 200 response whose only entry is for another address
C10_Witness ==
    /\ op = BE_overview /\ pc = "done" /\ responses # <<>>
    /\ responses[1].status = 200
    /\ Len(responses[1].data) = 1 /\ responses[1].data[1].addr # address
    /\ outcome = Raise("InvalidTokens", <<address>>)

====
